---- MODULE Spec2Model ----
(***************************************************************************)
(* Model of the Davis-Putnam style satisfiability procedure of main(2).py: *)
(* davis_putnam and its helpers find_pure_literals, unit_propagate,        *)
(* resolve_literal and negate.                                             *)
(*                                                                         *)
(* A literal is a Python string; it is modelled as the sequence of its     *)
(* characters, so that startswith, literal[1:] and '¬' + literal are the   *)
(* operations the code performs.  A clause is a set of literals and a      *)
(* formula is a set of clauses (a Python set of frozensets).               *)
(***************************************************************************)
EXTENDS FiniteSets, Integers, Sequences, TLC

\* ---------------------------------------------------------------- bounds
MaxClauseLen == 3
MaxClauses == 3
MaxOccurrences == 7
MaxBudget == 1

\* ------------------------------------------------------- program constants
MAX_STEPS == 10000

NEG == "¬"

\* The names the variables of the input formulas are drawn from.
VarNames == <<"A", "B", "C">>

\* A positive literal is the one-character string of a variable name.
Vars == {<<VarNames[i]>> : i \in DOMAIN VarNames}

\* ------------------------------------------------------------ pure helpers

\* literal.startswith('¬')
StartsWithNeg(literal) == Len(literal) > 0 /\ literal[1] = NEG

\* negate(literal)
negate(literal) ==
    IF StartsWithNeg(literal) THEN Tail(literal) ELSE <<NEG>> \o literal

\* find_pure_literals with the negated half of the result forgotten
find_pure_literals_positive_only(cnf) ==
    LET occurring == UNION cnf
        literals  == {l \in occurring : ~StartsWithNeg(l)}
        negations == {Tail(l) : l \in {k \in occurring : StartsWithNeg(k)}}
    IN  literals \ negations

\* find_pure_literals with the '¬' left off the negated half of the result
find_pure_literals_unprefixed(cnf) ==
    LET occurring == UNION cnf
        literals  == {l \in occurring : ~StartsWithNeg(l)}
        negations == {Tail(l) : l \in {k \in occurring : StartsWithNeg(k)}}
    IN  (literals \ negations) \cup (negations \ literals)

\* find_pure_literals(cnf)
find_pure_literals(cnf) ==
    LET occurring == UNION cnf
        literals  == {l \in occurring : ~StartsWithNeg(l)}
        negations == {Tail(l) : l \in {k \in occurring : StartsWithNeg(k)}}
    IN  (literals \ negations) \cup {<<NEG>> \o l : l \in (negations \ literals)}

\* the pure-literal filter with its condition inverted
remove_pure_inverted(cnf, pure_literals) ==
    {clause \in cnf : \E lit \in pure_literals : lit \in clause}

\* the pure-literal filter removing only the clauses that hold every pure literal
remove_pure_all(cnf, pure_literals) ==
    {clause \in cnf : \E lit \in pure_literals : lit \notin clause}

\* cnf = {clause for clause in cnf if all(lit not in clause for lit in pure_literals)}
remove_pure(cnf, pure_literals) ==
    {clause \in cnf : \A lit \in pure_literals : lit \notin clause}

\* unit_clauses = {next(iter(clause)) for clause in cnf if len(clause) == 1}
unit_clauses(cnf) ==
    {CHOOSE lit \in clause : TRUE : clause \in {c \in cnf : Cardinality(c) = 1}}

\* unit_propagate discarding a clause that has become empty
unit_propagate_drop_empty(cnf, unit_literals) ==
    {{lit \in clause : negate(lit) \notin unit_literals} :
        clause \in {c \in cnf : c \cap unit_literals = {}}} \ {{}}

\* unit_propagate keeping the falsified literals and removing the others
unit_propagate_inverted(cnf, unit_literals) ==
    {{lit \in clause : negate(lit) \in unit_literals} :
        clause \in {c \in cnf : c \cap unit_literals = {}}}

\* unit_propagate(cnf, unit_literals)
unit_propagate(cnf, unit_literals) ==
    {{lit \in clause : negate(lit) \notin unit_literals} :
        clause \in {c \in cnf : c \cap unit_literals = {}}}

\* resolve_literal keeping the literal in the selected clauses
resolve_literal_keep(cnf, literal) ==
    {clause : clause \in {c \in cnf : literal \in c}}

\* resolve_literal removing the negation of the literal instead of the literal
resolve_literal_wrong_polarity(cnf, literal) ==
    {clause \ {negate(literal)} : clause \in {c \in cnf : literal \in c}}

\* resolve_literal(cnf, literal)
resolve_literal(cnf, literal) ==
    {clause \ {literal} : clause \in {c \in cnf : literal \in c}}

\* pos | neg together with the clauses that mention neither polarity
eliminate_keep_rest(cnf, lit) ==
    resolve_literal(cnf, lit) \cup resolve_literal(cnf, negate(lit))
        \cup {clause \in cnf : lit \notin clause /\ negate(lit) \notin clause}

\* pos | neg for the chosen literal
eliminate(cnf, lit) ==
    resolve_literal(cnf, lit) \cup resolve_literal(cnf, negate(lit))

\* the budget check written with > instead of >=
timed_out_strict(s, m) == s > m

\* if steps >= max_steps: return None
timed_out(s, m) == s >= m

\* the increment of the counter left out
next_steps_forgotten(s) == s

\* steps += 1
next_steps(s) == s + 1

\* ------------------------------------------------------------------ inputs

Literals == Vars \cup {negate(v) : v \in Vars}

RECURSIVE SubsetsUpTo(_, _)
SubsetsUpTo(S, k) ==
    IF k = 0 THEN {{}}
    ELSE LET P == SubsetsUpTo(S, k - 1)
         IN  P \cup {p \cup {x} : p \in P, x \in S}

\* Clauses of at most MaxClauseLen literals (the empty clause included).
Clauses == SubsetsUpTo(Literals, MaxClauseLen)

RECURSIVE Occurrences(_)
\* The total number of literal occurrences of a formula.
Occurrences(formula) ==
    IF formula = {} THEN 0
    ELSE LET clause == CHOOSE c \in formula : TRUE
         IN  Cardinality(clause) + Occurrences(formula \ {clause})

RECURSIVE Enumerate(_)
\* The elements of a set in some order.
Enumerate(S) ==
    IF S = {} THEN <<>>
    ELSE LET x == CHOOSE y \in S : TRUE IN <<x>> \o Enumerate(S \ {x})

\* The clauses, numbered.
ClauseAt == Enumerate(Clauses)

\* A formula of at most MaxClauses clauses and MaxOccurrences literal occurrences
\* over the variables of VarNames (the empty formula included).
IsFormula(F) ==
    /\ F \in SUBSET Clauses
    /\ Cardinality(F) <= MaxClauses
    /\ Occurrences(F) <= MaxOccurrences

\* The budgets a caller passes: small ones and the default.
Budgets == (0..MaxBudget) \cup {MAX_STEPS}

\* ------------------------------------------------------------------- state

VARIABLES
    cnf,        \* the local clause set of davis_putnam
    steps,      \* the local step counter
    max_steps,  \* the budget argument
    state,      \* "RUNNING", or the returned verdict "SAT" / "UNSAT" / "ABORTED"
    input,      \* the formula the call was made with
    last,       \* the branch the last loop iteration took
    prev,       \* the clause set before the last loop iteration
    chosen,     \* the literal picked by the last elimination step
    eliminated, \* whether an elimination step has been performed in this call
    first       \* the verdict of the previous call on the same input, or "NONE"

vars == <<cnf, steps, max_steps, state, input, last, prev, chosen, eliminated, first>>

Terminal == {"SAT", "UNSAT", "ABORTED"}

NoLiteral == <<>>

TypeOK ==
    /\ cnf \in SUBSET (SUBSET Literals)
    /\ steps \in Nat
    /\ max_steps \in Budgets
    /\ state \in {"RUNNING"} \cup Terminal
    /\ IsFormula(input)
    /\ last \in {"call", "pure", "unit", "elim", "sat", "unsat", "abort"}
    /\ chosen \in Literals \cup {NoLiteral}
    /\ eliminated \in BOOLEAN
    /\ first \in {"NONE"} \cup Terminal

RECURSIVE CalledWith(_, _, _, _)
\* The call is made with the formula F or with F and up to k more clauses, of
\* numbers from `from` on and of at most `room` literals in all.
CalledWith(F, k, from, room) ==
    \/ input = F
    \/ /\ k > 0
       /\ \E j \in from..Len(ClauseAt) :
             /\ Cardinality(ClauseAt[j]) <= room
             /\ CalledWith(F \cup {ClauseAt[j]}, k - 1, j + 1,
                           room - Cardinality(ClauseAt[j]))

\* davis_putnam(cnf, max_steps): cnf = set(cnf); steps = 0
Init ==
    /\ CalledWith({}, MaxClauses, 1, MaxOccurrences)
    /\ max_steps \in Budgets
    /\ cnf = input
    /\ steps = 0
    /\ state = "RUNNING"
    /\ last = "call"
    /\ prev = input
    /\ chosen = NoLiteral
    /\ eliminated = FALSE
    /\ first = "NONE"

\* ----------------------------------------------------------------- actions

Return(verdict, branch) ==
    /\ state' = verdict
    /\ last' = branch
    /\ prev' = cnf
    /\ UNCHANGED <<cnf, steps, max_steps, input, chosen, eliminated, first>>

Rewrite(new_cnf, branch) ==
    /\ cnf' = new_cnf
    /\ steps' = next_steps(steps)
    /\ last' = branch
    /\ prev' = cnf
    /\ UNCHANGED <<max_steps, state, input, first>>

\* if steps >= max_steps: return None
Timeout ==
    /\ state = "RUNNING"
    /\ timed_out(steps, max_steps)
    /\ Return("ABORTED", "abort")

\* if pure_literals: remove the clauses containing them; steps += 1; continue
PureLiteralStep ==
    /\ state = "RUNNING"
    /\ ~timed_out(steps, max_steps)
    /\ find_pure_literals(cnf) # {}
    /\ Rewrite(remove_pure(cnf, find_pure_literals(cnf)), "pure")
    /\ UNCHANGED <<chosen, eliminated>>

\* if unit_clauses: cnf = unit_propagate(cnf, unit_clauses); steps += 1; continue
UnitPropagationStep ==
    /\ state = "RUNNING"
    /\ ~timed_out(steps, max_steps)
    /\ find_pure_literals(cnf) = {}
    /\ unit_clauses(cnf) # {}
    /\ Rewrite(unit_propagate(cnf, unit_clauses(cnf)), "unit")
    /\ UNCHANGED <<chosen, eliminated>>

\* if frozenset() in cnf: return False
ReturnUnsat ==
    /\ state = "RUNNING"
    /\ ~timed_out(steps, max_steps)
    /\ find_pure_literals(cnf) = {}
    /\ unit_clauses(cnf) = {}
    /\ {} \in cnf
    /\ Return("UNSAT", "unsat")

\* if not cnf: return True
ReturnSat ==
    /\ state = "RUNNING"
    /\ ~timed_out(steps, max_steps)
    /\ find_pure_literals(cnf) = {}
    /\ unit_clauses(cnf) = {}
    /\ {} \notin cnf
    /\ cnf = {}
    /\ Return("SAT", "sat")

\* lit = next(iter(next(iter(cnf)))); cnf = pos | neg; steps += 1
\* The iteration order of a set of strings is arbitrary: any clause and any
\* literal of it may be the one picked.
EliminationStep ==
    /\ state = "RUNNING"
    /\ ~timed_out(steps, max_steps)
    /\ find_pure_literals(cnf) = {}
    /\ unit_clauses(cnf) = {}
    /\ {} \notin cnf
    /\ cnf # {}
    /\ \E clause \in cnf : \E lit \in clause :
          /\ Rewrite(eliminate(cnf, lit), "elim")
          /\ chosen' = lit
          /\ eliminated' = TRUE

\* The caller calls davis_putnam again with the same formula and budget.
CallAgain ==
    /\ state \in Terminal
    /\ first = "NONE"
    /\ first' = state
    /\ cnf' = input
    /\ steps' = 0
    /\ state' = "RUNNING"
    /\ last' = "call"
    /\ prev' = input
    /\ chosen' = NoLiteral
    /\ eliminated' = FALSE
    /\ UNCHANGED <<max_steps, input>>

Next ==
    \/ Timeout
    \/ PureLiteralStep
    \/ UnitPropagationStep
    \/ ReturnUnsat
    \/ ReturnSat
    \/ EliminationStep

\* One call of davis_putnam.
Spec == Init /\ [][Next]_vars

\* The loop is a sequential program: an enabled iteration is executed.
FairSpec == Spec /\ WF_vars(Next)

NextRerun == Next \/ CallAgain

\* Two successive calls on the same input.
SpecRerun == Init /\ [][NextRerun]_vars

\* ------------------------------------------------- vocabulary of the claims

\* A truth assignment is the set of the variables it makes true.
LiteralTrue(l, assignment) ==
    IF StartsWithNeg(l) THEN Tail(l) \notin assignment ELSE l \in assignment

Satisfies(assignment, formula) ==
    \A clause \in formula : \E l \in clause : LiteralTrue(l, assignment)

Satisfiable(formula) == \E assignment \in SUBSET Vars : Satisfies(assignment, formula)

\* A literal that occurs in the formula and whose negation does not.
HasPureLiteral(formula) ==
    \E l \in UNION formula : negate(l) \notin UNION formula

HasUnitClause(formula) == \E clause \in formula : Cardinality(clause) = 1

\* Some clause holds both the literal and its negation.
TautologyOn(formula, l) ==
    \E clause \in formula : l \in clause /\ negate(l) \in clause

\* {{x1}, {¬x1, x2}, ..., {¬x(n-1), xn}} for a sequence x of distinct variables
Chain(x) ==
    {{x[1]}} \cup {{negate(x[i]), x[i + 1]} : i \in 1..(Len(x) - 1)}

Chains ==
    {Chain(x) : x \in {y \in UNION {[1..n -> Vars] : n \in DOMAIN VarNames} :
                          \A i, j \in DOMAIN y : y[i] = y[j] => i = j}}

Shrinks == Cardinality(cnf) < Cardinality(prev) \/ Occurrences(cnf) < Occurrences(prev)

\* ------------------------------------------------------------------ claims

\* C1: a formula holding both unit clauses {x} and {¬x} is decided UNSAT
\* under the default budget.
C1_ContradictoryUnitsUnsat ==
    (/\ max_steps = MAX_STEPS
     /\ state \in Terminal
     /\ \E x \in Vars : {x} \in input /\ {negate(x)} \in input)
    => state = "UNSAT"

\* C2: a SAT verdict is returned only for a satisfiable input formula.
C2_SatIsSound == state = "SAT" => Satisfiable(input)

\* C3: an UNSAT verdict is returned only for an unsatisfiable input formula.
C3_UnsatIsSound == state = "UNSAT" => ~Satisfiable(input)

\* C4 as stated: an input formula holding the empty clause is always decided
\* UNSAT.
C4_EmptyClauseAlwaysUnsat ==
    ({} \in input /\ state \in Terminal) => state = "UNSAT"

\* C4 amended: an input formula holding the empty clause is never decided SAT;
\* it is decided UNSAT unless the budget is used up first, and then ABORTED.
C4_EmptyClauseUnsatOrAborted ==
    ({} \in input /\ state \in Terminal)
    => (state = "UNSAT" \/ (state = "ABORTED" /\ steps = max_steps))

C4_Witness ==
    /\ {} \in input
    /\ Cardinality(input) > 1
    /\ state = "UNSAT"
    /\ steps > 0

\* C5: a second call on the same input with the same budget returns the
\* verdict of the first, whatever the elimination steps pick.
C5_SameVerdict ==
    (first # "NONE" /\ state \in Terminal) => state = first

\* C6: an iteration entered with the counter at or above the budget returns
\* ABORTED, never SAT or UNSAT.
C6_BudgetAborts ==
    [][(state = "RUNNING" /\ steps >= max_steps) => state' = "ABORTED"]_vars

C6_Witness ==
    /\ state = "ABORTED"
    /\ max_steps = 1
    /\ steps = 1
    /\ input \in Chains
    /\ Cardinality(input) >= 2

\* C7 as stated: every rewriting iteration strictly reduces the clause count
\* or the number of literal occurrences.
C7_EveryStepShrinks ==
    last \in {"pure", "unit", "elim"} => Shrinks

\* C7 amended: every rewriting iteration strictly reduces the clause count or
\* the number of literal occurrences, except an elimination step whose chosen
\* literal shares a clause with its negation.
C7_StepShrinksUnlessTautology ==
    (\/ last \in {"pure", "unit"}
     \/ (last = "elim" /\ ~TautologyOn(prev, chosen)))
    => Shrinks

C7_Witness ==
    /\ last = "elim"
    /\ ~TautologyOn(prev, chosen)
    /\ Cardinality(cnf) = Cardinality(prev)
    /\ Occurrences(cnf) < Occurrences(prev)

\* C8: every call reaches SAT, UNSAT or ABORTED, and every iteration either
\* returns or increments the step counter.
C8_Terminates ==
    /\ <>(state \in Terminal)
    /\ [][state = "RUNNING" => (state' \in Terminal \/ steps' = steps + 1)]_vars

C8_Witness ==
    /\ state \in Terminal
    /\ eliminated
    /\ steps >= 3

\* C9: a chain formula of n variables is decided SAT under the default budget
\* within n counted steps and without an elimination step.
C9_ChainSat ==
    (input \in Chains /\ max_steps = MAX_STEPS)
    => /\ ~eliminated
       /\ steps <= Cardinality(input)
       /\ state \in {"RUNNING", "SAT"}

C9_Witness ==
    /\ input = Chain(<< <<VarNames[1]>>, <<VarNames[2]>>, <<VarNames[3]>> >>)
    /\ max_steps = MAX_STEPS
    /\ state = "SAT"
    /\ steps = 3

\* C10: an elimination step starts from a formula with no pure literal, no
\* unit clause and no empty clause that is not empty, so a clause and a
\* literal of it exist to be picked.
C10_EliminationGuard ==
    last = "elim"
    => /\ ~HasPureLiteral(prev)
       /\ ~HasUnitClause(prev)
       /\ prev # {}
       /\ {} \notin prev
       /\ \E clause \in prev : \E lit \in clause : lit = chosen

C10_Witness ==
    /\ last = "elim"
    /\ Cardinality(prev) >= 2
    /\ chosen \in Literals

\* ------------------------------------------ vocabulary of the later claims

\* The set of literals holds a literal together with its negation.
Contradictory(literals) == \E l \in literals : negate(l) \in literals

\* The literals of a formula that are the only member of one of its clauses.
UnitLiteralsOf(formula) == {l \in UNION formula : {l} \in formula}

\* The literals that occur in the formula and whose negation occurs nowhere.
PureLiteralsOf(formula) ==
    {l \in UNION formula : negate(l) \notin UNION formula}

\* The clause holds the literal or its negation.
Mentions(clause, l) == l \in clause \/ negate(l) \in clause

\* ------------------------------------------------------------ later claims

\* C11: after a unit-propagation step on units without a complementary pair,
\* an assignment that makes every unit literal true satisfies the formula
\* before the step exactly when it satisfies the formula after it.
C11_UnitPropagationEquivalent ==
    (last = "unit" /\ ~Contradictory(UnitLiteralsOf(prev)))
    => \A assignment \in SUBSET Vars :
          (\A u \in UnitLiteralsOf(prev) : LiteralTrue(u, assignment))
          => (Satisfies(assignment, prev) <=> Satisfies(assignment, cnf))

C11_Witness ==
    /\ last = "unit"
    /\ ~Contradictory(UnitLiteralsOf(prev))
    /\ \E clause \in prev :
          /\ clause \cap UnitLiteralsOf(prev) = {}
          /\ \E lit \in clause : negate(lit) \in UnitLiteralsOf(prev)
    /\ cnf # {}

\* C12: a unit-propagation step on units that hold a literal and its negation
\* leaves a formula that contains the empty clause.
C12_ContradictoryUnitsGiveEmptyClause ==
    (last = "unit" /\ Contradictory(UnitLiteralsOf(prev))) => {} \in cnf

\* C13 as stated: after an elimination step the formula has changed and no
\* clause holds the chosen literal or its negation.
C13_VariableGone ==
    last = "elim"
    => /\ cnf # prev
       /\ \A clause \in cnf : ~Mentions(clause, chosen)

\* C13 amended: after an elimination step the formula has changed, and the
\* chosen variable is gone from it exactly when no clause held both the chosen
\* literal and its negation.
C13_VariableGoneUnlessTautology ==
    last = "elim"
    => /\ cnf # prev
       /\ (\A clause \in cnf : ~Mentions(clause, chosen))
              <=> ~TautologyOn(prev, chosen)

C13_Witness ==
    /\ last = "elim"
    /\ ~TautologyOn(prev, chosen)
    /\ cnf # {}
    /\ \E clause \in prev : chosen \in clause
    /\ \E clause \in prev : negate(chosen) \in clause

\* C14 as stated: a clause that holds neither the chosen literal nor its
\* negation is not in the formula after the elimination step.
C14_UnrelatedClauseDropped ==
    last = "elim"
    => \A clause \in prev : ~Mentions(clause, chosen) => clause \notin cnf

\* C14 amended: the formula after the elimination step is exactly
\* {C \ {l} : l in C} with {C \ {¬l} : ¬l in C}; a clause that holds neither
\* l nor ¬l is in it only as such a remainder of another clause.
C14_OnlyRemaindersKept ==
    last = "elim"
    => /\ cnf = {c \ {chosen} : c \in {d \in prev : chosen \in d}}
               \cup {c \ {negate(chosen)} : c \in {d \in prev : negate(chosen) \in d}}
       /\ \A clause \in prev :
             (~Mentions(clause, chosen) /\ clause \in cnf)
             => \E other \in prev :
                   /\ other # clause
                   /\ Mentions(other, chosen)
                   /\ clause \in {other \ {chosen}, other \ {negate(chosen)}}

C14_Witness ==
    /\ last = "elim"
    /\ \E clause \in prev : ~Mentions(clause, chosen) /\ clause \notin cnf
    /\ cnf # {}

\* C15: with a pure literal in the formula, the iteration is the pure-literal
\* step; it keeps exactly the clauses without a pure literal, the clause count
\* strictly decreases and the counter increases by one.
C15_PureStepEffect ==
    [][/\ (state = "RUNNING" /\ steps < max_steps /\ PureLiteralsOf(cnf) # {})
            => last' = "pure"
       /\ last' = "pure"
            => /\ PureLiteralsOf(cnf) # {}
               /\ cnf' = {clause \in cnf : clause \cap PureLiteralsOf(cnf) = {}}
               /\ Cardinality(cnf') < Cardinality(cnf)
               /\ steps' = steps + 1]_vars

C15_Witness ==
    /\ last = "pure"
    /\ Cardinality(PureLiteralsOf(prev)) >= 2
    /\ cnf # {}
    /\ Cardinality(cnf) < Cardinality(prev)

\* C16: find_pure_literals returns exactly the literals that occur in the
\* formula and whose negation occurs in no clause.
C16_PureLiteralsExact ==
    /\ find_pure_literals(cnf) = PureLiteralsOf(cnf)
    /\ find_pure_literals(cnf) \subseteq UNION cnf

C16_Witness ==
    /\ \E l \in find_pure_literals(cnf) : StartsWithNeg(l)
    /\ \E l \in find_pure_literals(cnf) : ~StartsWithNeg(l)
    /\ \E l \in UNION cnf : l \notin find_pure_literals(cnf)
    /\ steps > 0

\* C17: the counter stays within 0..max_steps; a rewriting step adds exactly
\* one to it and a return leaves it unchanged.
C17_CounterBounded ==
    /\ [](steps \in 0..max_steps)
    /\ [][/\ last' \in {"pure", "unit", "elim"} => steps' = steps + 1
          /\ last' \in {"sat", "unsat", "abort"} => steps' = steps]_vars

C17_Witness ==
    /\ state = "ABORTED"
    /\ steps = max_steps
    /\ steps > 0

\* C18: the empty clause, once in the formula, stays in it: the step taken
\* with it present is never the elimination step and never a SAT return.
C18_EmptyClauseStays ==
    [][{} \in cnf => ({} \in cnf' /\ last' # "elim" /\ state' # "SAT")]_vars

C18_Witness ==
    /\ {} \in prev
    /\ {} \in cnf
    /\ last = "unit"
    /\ cnf # prev

\* C19: SAT and UNSAT are returned only with steps < max_steps; a run that has
\* used exactly max_steps steps returns ABORTED, and so does every run with
\* max_steps = 0.
C19_BudgetCheckedFirst ==
    /\ state \in {"SAT", "UNSAT"} => steps < max_steps
    /\ (state \in Terminal /\ steps = max_steps) => state = "ABORTED"
    /\ (state \in Terminal /\ max_steps = 0) => state = "ABORTED"

C19_Witness ==
    /\ state = "ABORTED"
    /\ max_steps > 0
    /\ steps = max_steps
    /\ (cnf = {} \/ {} \in cnf)
    /\ input # {}
    /\ {} \notin input

====
